---- MODULE Spec2Model ----
(***************************************************************************)
(* A model of the chat client: the App component's state and handlers      *)
(* (src/unnamed/part_000), the calls the Menu and ChatInput components     *)
(* make on them (src/src/components/Menu.tsx, src/unnamed/part_002) and    *)
(* the external completion call (src/unnamed/part_001).                    *)
(*                                                                         *)
(* One action is one event of the single-threaded event loop: a UI event   *)
(* handler, or the continuation of handleSend after its await.  Each       *)
(* action includes the batched state updates, the re-render and the        *)
(* persistence effects that follow the handler.  A handler reads the       *)
(* state of the render it was created in, which for a UI event is the      *)
(* current state; the continuation of handleSend reads the values its      *)
(* closure captured when the send was issued.                              *)
(*                                                                         *)
(* Array indices are those of the source (0-based); sequences are 1-based. *)
(***************************************************************************)
EXTENDS Integers, Sequences, FiniteSets, TLC

VARIABLES
    conversations,            \* useState<Conversation[]>
    currentConversationId,    \* useState<string | null>
    isLoading,                \* useState(false), the busy flag
    editIndex,                \* useState<number | null>
    editRole,                 \* useState<"user" | "model" | null>
    systemInstructionPresets, \* useState<SystemInstructionPreset[]>
    selectedModel,            \* useState<string>
    storage,                  \* localStorage: the four slots the App reads and writes
    pending,                  \* handleSend calls suspended at their await, in issue order
    nextId,                   \* uuidv4 has handed out Uuids[1] .. Uuids[nextId - 1]
    phase,                    \* "initial": first render done, effects not yet run;
                              \* "mounted": running; "crashed": a render threw, the tree is gone
    lastOp                    \* history variable: the event that produced this state

vars == <<conversations, currentConversationId, isLoading, editIndex, editRole,
          systemInstructionPresets, selectedModel, storage, pending, nextId,
          phase, lastOp>>

-----------------------------------------------------------------------------
(* Bounds of the model *)

\* The user sends, edits, renames or instructs only if the conversations then
\* hold at most this much content: messages, replies awaited, given names,
\* instructions.
MaxContent == 2

\* The same measure for the one conversation of SpecThread.
MaxThread == 4

(* Values *)

\* The ids uuidv4 hands out, in the order it hands them out; no further
\* conversation is created once they are used up.
Uuids == <<"id-a", "id-b", "id-c">>

NoId == "null"     \* currentConversationId === null
NoIndex == -1      \* editIndex === null

DefaultModel == "gemini-2.5-flash"
Models == {"gemini-2.5-flash", "gemini-2.5-pro"}

\* What the user types into the chat box to send, and what the user leaves in
\* it when submitting an edit; the last one of each is whitespace only.
SendTexts == {"hi", "  "}
EditTexts == {"yo", "  "}
\* What the user types into the instruction box.
InstructionTexts == {"", "be brief", "be kind"}
\* The names the user gives to presets.
PresetNames == {"p", "q"}
\* What the user types into the rename box.
RenameInputs == {" Work ", "  "}
\* String.prototype.trim on the strings the model types.
Trim(s) ==
    CASE s = "  " -> ""
      [] s = " Work " -> "Work"
      [] OTHER -> s

-----------------------------------------------------------------------------
(* Messages and JavaScript arrays *)

Msg(role, text) == [role |-> role, text |-> text]
\* An array hole (index never assigned).
Hole == [role |-> "<hole>", text |-> "<hole>"]
\* An element that is undefined or null.
Undefined == [role |-> "<undefined>", text |-> "<undefined>"]
\* { ...undefined, text }: an object with a text and no role key.
NoRole == "<absent>"

Min(a, b) == IF a < b THEN a ELSE b

\* a.slice(0, n)
ArraySlice(a, n) == SubSeq(a, 1, Min(n, Len(a)))

\* [...a]: iteration yields undefined for a hole
ArraySpread(a) == [k \in 1..Len(a) |-> IF a[k] = Hole THEN Undefined ELSE a[k]]

\* a[i]
ArrayGet(a, i) ==
    IF i >= 0 /\ i < Len(a) /\ a[i + 1] # Hole THEN a[i + 1] ELSE Undefined

\* a[i] = v on a copy of a; writing past the end leaves holes
ArraySet(a, i, v) ==
    IF i < Len(a)
    THEN [a EXCEPT ![i + 1] = v]
    ELSE a \o [k \in 1..(i - Len(a)) |-> Hole] \o <<v>>

\* { text } in place of { ...m, text }
WithText_DropsRole(m, text) == Msg(NoRole, text)

\* { ...m, text }
WithText(m, text) ==
    IF m = Undefined THEN Msg(NoRole, text) ELSE Msg(m.role, text)

-----------------------------------------------------------------------------
(* localStorage and JSON *)

\* JSON.stringify of a message list: holes and undefined become null, which
\* JSON.parse gives back as null.
StringifyMessages(ms) ==
    [k \in 1..Len(ms) |-> IF ms[k] = Hole THEN Undefined ELSE ms[k]]

StringifyConversations(convs) ==
    [k \in 1..Len(convs) |->
        [convs[k] EXCEPT !.messages = StringifyMessages(convs[k].messages)]]

\* A slot: present is FALSE when getItem returns null; corrupt is TRUE when
\* the stored text is not JSON; json is the value the text encodes.
NoConversations == [present |-> FALSE, corrupt |-> FALSE, json |-> <<>>]
NoCurrentId == [present |-> FALSE, corrupt |-> FALSE, json |-> NoId]
NoPresets == [present |-> FALSE, corrupt |-> FALSE, json |-> <<>>]
NoModel == [present |-> FALSE, corrupt |-> FALSE, json |-> ""]

Item(v) == [present |-> TRUE, corrupt |-> FALSE, json |-> v]

EmptyStorage ==
    [conversations |-> NoConversations, currentId |-> NoCurrentId,
     presets |-> NoPresets, model |-> NoModel]

-----------------------------------------------------------------------------
(* The App component's state *)

\* The state of one render of App, as a record of its useState cells.
App ==
    [conversations |-> conversations,
     currentConversationId |-> currentConversationId,
     isLoading |-> isLoading,
     editIndex |-> editIndex,
     editRole |-> editRole,
     systemInstructionPresets |-> systemInstructionPresets,
     selectedModel |-> selectedModel,
     pending |-> pending]

getInitialPresets(st) ==
    IF st.presets.present /\ ~st.presets.corrupt THEN st.presets.json ELSE <<>>

InitialSelectedModel(st) ==
    IF st.model.present /\ ~st.model.corrupt THEN st.model.json ELSE DefaultModel

\* The useState initial values of a fresh App over storage st.
InitialApp(st) ==
    [conversations |-> <<>>,
     currentConversationId |-> NoId,
     isLoading |-> FALSE,
     editIndex |-> NoIndex,
     editRole |-> "null",
     systemInstructionPresets |-> getInitialPresets(st),
     selectedModel |-> InitialSelectedModel(st),
     pending |-> <<>>]

\* conversations.find((c) => c.id === currentConversationId) as an index, 0 if none
FindConversation(convs, id) ==
    IF \E k \in 1..Len(convs) : convs[k].id = id
    THEN CHOOSE k \in 1..Len(convs) :
            convs[k].id = id /\ \A j \in 1..(k - 1) : convs[j].id # id
    ELSE 0

HasCurrentConversation(s) ==
    FindConversation(s.conversations, s.currentConversationId) # 0

currentConversation(s) ==
    s.conversations[FindConversation(s.conversations, s.currentConversationId)]

\* currentConversation?.messages ?? []
messages(s) == IF HasCurrentConversation(s) THEN currentConversation(s).messages ELSE <<>>

\* currentConversation?.systemInstruction ?? ""
systemInstruction(s) ==
    IF HasCurrentConversation(s) THEN currentConversation(s).systemInstruction ELSE ""

\* The ids of the conversations the Menu lists.
ListedIds(s) == {s.conversations[k].id : k \in 1..Len(s.conversations)}

\* { ...c, ...update }
Merge(c, update) ==
    [f \in DOMAIN c |-> IF f \in DOMAIN update THEN update[f] ELSE c[f]]

\* prev.map((c) => (c.id === id ? { ...c, ...update } : c))
\* updateConversation adding a conversation when none has the id.
updateConversation_Upserts(prev, id, update) ==
    IF \E k \in 1..Len(prev) : prev[k].id = id
    THEN [k \in 1..Len(prev) |->
             IF prev[k].id = id THEN Merge(prev[k], update) ELSE prev[k]]
    ELSE prev \o <<Merge([id |-> id, name |-> "", messages |-> <<>>,
                          systemInstruction |-> ""], update)>>

updateConversation(prev, id, update) ==
    [k \in 1..Len(prev) |-> IF prev[k].id = id THEN Merge(prev[k], update) ELSE prev[k]]

\* uuidv4 as a generator that repeats itself.
uuidv4_Repeats == Uuids[1]

\* uuidv4(): an id that was never handed out before
uuidv4 == Uuids[nextId]

\* The name numbered from the count instead of the count plus one.
ConversationName_FromZero(n) == "Conversation " \o ToString(n - 1)

\* `Conversation ${n}`
ConversationName(n) == "Conversation " \o ToString(n)

\* handleNewChat run in a render whose conversations are closure, on the
\* queued state s: both setters of the handler.
handleNewChat(s, closure) ==
    [s EXCEPT
        !.conversations = @ \o <<[id |-> uuidv4,
                                  name |-> ConversationName(Len(closure) + 1),
                                  messages |-> <<>>,
                                  systemInstruction |-> ""]>>,
        !.currentConversationId = uuidv4]

handleSwitchConversation(s, id) == [s EXCEPT !.currentConversationId = id]

\* handleDeleteConversation without its branch for the current conversation.
handleDeleteConversation_KeepsCurrent(s, id) ==
    [s EXCEPT !.conversations = SelectSeq(@, LAMBDA c : c.id # id)]

\* handleDeleteConversation moving to the last remaining conversation.
handleDeleteConversation_ToLast(s, id) ==
    LET filtered == [s EXCEPT
                       !.conversations = SelectSeq(@, LAMBDA c : c.id # id)]
        remainingConversations == SelectSeq(s.conversations, LAMBDA c : c.id # id)
    IN  IF s.currentConversationId = id
        THEN IF Len(remainingConversations) > 0
             THEN [filtered EXCEPT
                      !.currentConversationId =
                          remainingConversations[Len(remainingConversations)].id]
             ELSE handleNewChat(filtered, s.conversations)
        ELSE filtered

handleDeleteConversation(s, id) ==
    LET filtered == [s EXCEPT
                       !.conversations = SelectSeq(@, LAMBDA c : c.id # id)]
        remainingConversations == SelectSeq(s.conversations, LAMBDA c : c.id # id)
    IN  IF s.currentConversationId = id
        THEN IF Len(remainingConversations) > 0
             THEN [filtered EXCEPT
                      !.currentConversationId = remainingConversations[1].id]
             ELSE handleNewChat(filtered, s.conversations)
        ELSE filtered

\* Whether handleDeleteConversation(s, id) calls handleNewChat.
DeleteCreates(s, id) ==
    /\ s.currentConversationId = id
    /\ \A k \in 1..Len(s.conversations) : s.conversations[k].id = id

\* handleRenameConversation giving the name to every conversation.
handleRenameConversation_All(s, id, newName) ==
    [s EXCEPT !.conversations =
        [k \in 1..Len(@) |-> [@[k] EXCEPT !.name = newName]]]

handleRenameConversation(s, id, newName) ==
    [s EXCEPT !.conversations = updateConversation(@, id, [name |-> newName])]

\* handleClearChat emptying the message list of every conversation.
handleClearChat_All(s) ==
    [s EXCEPT !.conversations =
        [k \in 1..Len(@) |-> [@[k] EXCEPT !.messages = <<>>]]]

handleClearChat(s) ==
    IF s.currentConversationId # NoId
    THEN [s EXCEPT !.conversations =
             updateConversation(@, s.currentConversationId, [messages |-> <<>>])]
    ELSE s

handleSystemInstructionChange(s, text) ==
    IF s.currentConversationId # NoId
    THEN [s EXCEPT !.conversations =
             updateConversation(@, s.currentConversationId,
                                [systemInstruction |-> text])]
    ELSE s

\* prev.findIndex((p) => p.name === name), 0 for -1
FindPreset(prev, name) ==
    IF \E k \in 1..Len(prev) : prev[k].name = name
    THEN CHOOSE k \in 1..Len(prev) :
            prev[k].name = name /\ \A j \in 1..(k - 1) : prev[j].name # name
    ELSE 0

\* handleAddSystemInstructionPreset without the look-up of the name.
handleAddSystemInstructionPreset_Appends(s, name) ==
    IF ~HasCurrentConversation(s) THEN s
    ELSE [s EXCEPT !.systemInstructionPresets =
            @ \o <<[name |-> name,
                    instruction |-> currentConversation(s).systemInstruction]>>]

handleAddSystemInstructionPreset(s, name) ==
    IF ~HasCurrentConversation(s) THEN s
    ELSE LET newPreset == [name |-> name,
                           instruction |-> currentConversation(s).systemInstruction]
             existingIndex == FindPreset(s.systemInstructionPresets, name)
         IN  [s EXCEPT !.systemInstructionPresets =
                IF existingIndex # 0
                THEN [@ EXCEPT ![existingIndex] = newPreset]
                ELSE @ \o <<newPreset>>]

\* handleDeleteSystemInstructionPreset clearing the instruction whatever the
\* deleted preset held.
handleDeleteSystemInstructionPreset_Clears(s, name) ==
    handleSystemInstructionChange(
        [s EXCEPT !.systemInstructionPresets =
            SelectSeq(@, LAMBDA p : p.name # name)], "")

handleDeleteSystemInstructionPreset(s, name) ==
    LET found == FindPreset(s.systemInstructionPresets, name)
        removed == [s EXCEPT !.systemInstructionPresets =
                       SelectSeq(@, LAMBDA p : p.name # name)]
    IN  IF /\ found # 0
           /\ HasCurrentConversation(s)
           /\ currentConversation(s).systemInstruction =
                  s.systemInstructionPresets[found].instruction
        THEN handleSystemInstructionChange(removed, "")
        ELSE removed

\* handleSend committing nothing before the reply.
handleSend_NotOptimistic(s, userText, history) ==
    IF s.currentConversationId = NoId THEN s
    ELSE [s EXCEPT
            !.isLoading = TRUE,
            !.pending = @ \o <<[cid |-> s.currentConversationId,
                                newMessages |-> ArraySpread(history)
                                                  \o <<Msg("user", userText)>>]>>]

\* handleSend up to its await: the optimistic commit, the busy flag, and the
\* call left pending with what its closure captured.
handleSend(s, userText, history) ==
    IF s.currentConversationId = NoId THEN s
    ELSE LET newMessages == ArraySpread(history) \o <<Msg("user", userText)>>
         IN  [s EXCEPT
                !.conversations =
                    updateConversation(@, s.currentConversationId,
                                       [messages |-> newMessages]),
                !.isLoading = TRUE,
                !.pending = @ \o <<[cid |-> s.currentConversationId,
                                    newMessages |-> newMessages]>>]

\* handleSend from its await on, for the pending call p whose reply arrived.
\* handleSend committing the reply to the conversation that is current when
\* the reply arrives.
handleSendResume_ToCurrent(s, p, reply) ==
    [s EXCEPT
        !.conversations =
            updateConversation(@, s.currentConversationId,
                [messages |-> ArraySpread(p.newMessages) \o <<Msg("model", reply)>>]),
        !.isLoading = FALSE]

\* handleSend appending the reply to the messages the conversation holds
\* when the reply arrives.
handleSendResume_AppendsToLatest(s, p, reply) ==
    LET k == FindConversation(s.conversations, p.cid)
    IN  [s EXCEPT
            !.conversations =
                IF k = 0 THEN @
                ELSE updateConversation(@, p.cid,
                        [messages |-> ArraySpread(s.conversations[k].messages)
                                        \o <<Msg("model", reply)>>]),
            !.isLoading = FALSE]

handleSendResume(s, p, reply) ==
    [s EXCEPT
        !.conversations =
            updateConversation(@, p.cid,
                [messages |-> ArraySpread(p.newMessages) \o <<Msg("model", reply)>>]),
        !.isLoading = FALSE]

\* handleSend clearing the busy flag after the commit of the reply instead of
\* in a finally block.
handleSendRejected_NoFinally(s) == s

\* handleSend from its await on when the awaited call rejects: the finally
\* block alone runs.
handleSendRejected(s) == [s EXCEPT !.isLoading = FALSE]

\* The guard of handleResend without the test of the role.
CanResend_AnyRole(s, index) == ArrayGet(messages(s), index) # Undefined

\* Whether handleResend(index) passes its guard.
CanResend(s, index) ==
    LET targetMsg == ArrayGet(messages(s), index)
    IN  targetMsg # Undefined /\ targetMsg.role = "user"

\* handleResend keeping the message it resends in the history.
handleResend_KeepsTarget(s, index) ==
    IF CanResend(s, index)
    THEN handleSend(s, ArrayGet(messages(s), index).text,
                    ArraySlice(messages(s), index + 1))
    ELSE s

handleResend(s, index) ==
    IF CanResend(s, index)
    THEN handleSend(s, ArrayGet(messages(s), index).text, ArraySlice(messages(s), index))
    ELSE s

\* The onSend callback App gives ChatInput, with the reset of the edit state.
onSend(s, text) ==
    LET sent ==
          IF s.editIndex # NoIndex /\ s.editRole = "user"
          THEN handleSend(s, text, ArraySlice(messages(s), s.editIndex))
          ELSE IF s.editIndex # NoIndex /\ s.editRole = "model"
          THEN IF s.currentConversationId # NoId
               THEN [s EXCEPT !.conversations =
                       updateConversation(@, s.currentConversationId,
                           [messages |->
                               ArraySet(ArraySpread(messages(s)), s.editIndex,
                                        WithText(ArrayGet(ArraySpread(messages(s)),
                                                          s.editIndex), text))])]
               ELSE s
          ELSE handleSend(s, text, messages(s))
    IN  [sent EXCEPT !.editIndex = NoIndex, !.editRole = "null"]

-----------------------------------------------------------------------------
(* The external completion call *)

\* The strings sendToGeminiWithContext returns in place of a reply (the
\* source's texts are Japanese; these stand for them).
MissingKeyText == "[!] API key is not set"
EmptyResponseText == "[!] response was empty"
UnknownErrorText == "[!] unknown error"
ErrorText(message) == "[!] error: " \o message

\* localStorage.getItem("gemini_api_key"): "" stands for no key.
ApiKeys == {"", "key"}

\* What ai.models.generateContent does: resolve with a text, resolve with no
\* text, throw an Error, throw something that is no Error.
RemoteOutcomes ==
    {[kind |-> "text", text |-> "ok"],
     [kind |-> "notext", text |-> ""],
     [kind |-> "Error", text |-> "boom"],
     [kind |-> "thrown", text |-> ""]}

\* How a block of code ends: by returning text or by throwing (an Error with
\* message text, or something else); invoked tells whether
\* ai.models.generateContent has been called.
Returned(text, invoked) ==
    [kind |-> "return", isError |-> FALSE, text |-> text, invoked |-> invoked]

Thrown(isError, message, invoked) ==
    [kind |-> "throw", isError |-> isError, text |-> message, invoked |-> invoked]

\* The try block of sendToGeminiWithContext called with messages msgs:
\* messages.map reads msg.role, which throws a TypeError on null; then the
\* remote call, and response.text ?? the placeholder.
TryBlock(msgs, remote) ==
    IF \E k \in 1..Len(msgs) : msgs[k] = Undefined
    THEN Thrown(TRUE, "TypeError", FALSE)
    ELSE CASE remote.kind = "text" -> Returned(remote.text, TRUE)
           [] remote.kind = "notext" -> Returned(EmptyResponseText, TRUE)
           [] remote.kind = "Error" -> Thrown(TRUE, remote.text, TRUE)
           [] OTHER -> Thrown(FALSE, "", TRUE)

\* The catch block, entered with what the try block threw.
CatchBlock(thrown) ==
    IF thrown.isError
    THEN Returned(ErrorText(thrown.text), thrown.invoked)
    ELSE Returned(UnknownErrorText, thrown.invoked)

\* sendToGeminiWithContext with a catch block that handles Errors only.
sendToGeminiWithContext_CatchesErrorsOnly(msgs, apiKey, remote) ==
    IF apiKey = "" THEN Returned(MissingKeyText, FALSE)
    ELSE LET tried == TryBlock(msgs, remote)
         IN  IF tried.kind = "throw" /\ tried.isError
             THEN CatchBlock(tried) ELSE tried

\* How the call ends, for the messages passed, the stored key and the remote
\* outcome.
sendToGeminiWithContext(msgs, apiKey, remote) ==
    IF apiKey = "" THEN Returned(MissingKeyText, FALSE)
    ELSE LET tried == TryBlock(msgs, remote)
         IN  IF tried.kind = "throw" THEN CatchBlock(tried) ELSE tried

-----------------------------------------------------------------------------
(* Effects and rendering *)

\* The load effect, run once after the first render (whose conversations are
\* []), on storage st and queued state s.
LoadEffect(s, st) ==
    IF st.conversations.present
    THEN IF st.conversations.corrupt
         THEN handleNewChat(s, <<>>)
         ELSE LET parsedConversations == st.conversations.json
                  loaded == [s EXCEPT !.conversations = parsedConversations]
              IN  IF st.currentId.present
                  THEN IF st.currentId.corrupt
                       THEN handleNewChat(loaded, <<>>)
                       ELSE [loaded EXCEPT !.currentConversationId = st.currentId.json]
                  ELSE IF Len(parsedConversations) > 0
                       THEN [loaded EXCEPT
                               !.currentConversationId = parsedConversations[1].id]
                       ELSE loaded
    ELSE handleNewChat(s, <<>>)

\* Whether the load effect calls handleNewChat.
LoadCreates(st) ==
    \/ ~st.conversations.present
    \/ st.conversations.corrupt
    \/ st.currentId.present /\ st.currentId.corrupt

\* The two effects that save on every render, with nothing to guard them.
SaveSettings(st, s) ==
    [st EXCEPT !.presets = Item(s.systemInstructionPresets),
               !.model = Item(s.selectedModel)]

\* The four save effects after a render of state s.
SaveEffects(st, s) ==
    [SaveSettings(st, s) EXCEPT
        !.conversations =
            IF Len(s.conversations) > 0
            THEN Item(StringifyConversations(s.conversations))
            ELSE @,
        !.currentId =
            IF s.currentConversationId # NoId
            THEN Item(s.currentConversationId)
            ELSE @]

\* messages.map((msg, i) => ... msg.role ...) throws on an element that is
\* undefined or null (map skips holes).
RenderThrows(s) ==
    \E k \in 1..Len(messages(s)) : messages(s)[k] = Undefined

\* The record of an event in lastOp.
Op(op, after) == [op |-> op, after |-> after]

\* The state updates s of one event are committed: App renders s and the save
\* effects run on storage st; a render that throws unmounts the tree and
\* nothing is saved.
Commit(s, st, op) ==
    \E t \in {s} :
        /\ lastOp' = op
        /\ IF RenderThrows(t)
           THEN /\ phase' = "crashed"
                /\ storage' = st
                /\ conversations' = <<>>
                /\ currentConversationId' = NoId
                /\ isLoading' = FALSE
                /\ editIndex' = NoIndex
                /\ editRole' = "null"
                /\ systemInstructionPresets' = <<>>
                /\ selectedModel' = DefaultModel
                /\ pending' = <<>>
           ELSE /\ phase' = "mounted"
                /\ storage' = SaveEffects(st, t)
                /\ conversations' = t.conversations
                /\ currentConversationId' = t.currentConversationId
                /\ isLoading' = t.isLoading
                /\ editIndex' = t.editIndex
                /\ editRole' = t.editRole
                /\ systemInstructionPresets' = t.systemInstructionPresets
                /\ selectedModel' = t.selectedModel
                /\ pending' = t.pending

-----------------------------------------------------------------------------
(* Events *)

\* The messages the conversations convs hold.
RECURSIVE StoredMessages(_)
StoredMessages(convs) ==
    IF convs = <<>> THEN 0
    ELSE Len(Head(convs).messages) + StoredMessages(Tail(convs))

\* The conversations of s that carry a name typed into the rename box.
Renamed(s) ==
    {k \in 1..Len(s.conversations) :
        s.conversations[k].name \in {Trim(x) : x \in RenameInputs}}

\* The conversations of s that carry an instruction.
Instructed(s) ==
    {k \in 1..Len(s.conversations) : s.conversations[k].systemInstruction # ""}

\* The content of state s: its messages, the replies it awaits, the names
\* given, the instructions.
Size(s) ==
    StoredMessages(s.conversations) + Len(s.pending)
        + Cardinality(Renamed(s)) + Cardinality(Instructed(s))

\* The bounds allow the event that leads to state s.
WithinBounds(s) == Size(s) <= MaxContent

Init ==
    /\ storage = EmptyStorage
    /\ conversations = InitialApp(EmptyStorage).conversations
    /\ currentConversationId = InitialApp(EmptyStorage).currentConversationId
    /\ isLoading = InitialApp(EmptyStorage).isLoading
    /\ editIndex = InitialApp(EmptyStorage).editIndex
    /\ editRole = InitialApp(EmptyStorage).editRole
    /\ systemInstructionPresets = InitialApp(EmptyStorage).systemInstructionPresets
    /\ selectedModel = InitialApp(EmptyStorage).selectedModel
    /\ pending = InitialApp(EmptyStorage).pending
    /\ nextId = 1
    /\ phase = "initial"
    /\ lastOp = Op("init", "")

\* The effects of the first render: the load effect, the save effects of the
\* first render (conversations [] and id null are not saved), then the render
\* of the loaded state and its save effects.
Mount ==
    /\ phase = "initial"
    /\ LoadCreates(storage) => nextId <= Len(Uuids)
    /\ nextId' = IF LoadCreates(storage) THEN nextId + 1 ELSE nextId
    /\ Commit(LoadEffect(App, storage), SaveSettings(storage, App),
              Op("load", IF storage.conversations.present THEN "saved" ELSE "empty"))

\* The page is reloaded (or closed and opened again): a new App over the same
\* storage; the sends in flight are gone with the old page.
Reload ==
    /\ phase # "initial"
    /\ conversations' = InitialApp(storage).conversations
    /\ currentConversationId' = InitialApp(storage).currentConversationId
    /\ isLoading' = InitialApp(storage).isLoading
    /\ editIndex' = InitialApp(storage).editIndex
    /\ editRole' = InitialApp(storage).editRole
    /\ systemInstructionPresets' = InitialApp(storage).systemInstructionPresets
    /\ selectedModel' = InitialApp(storage).selectedModel
    /\ pending' = InitialApp(storage).pending
    /\ phase' = "initial"
    /\ lastOp' = Op("reload", "")
    /\ UNCHANGED <<storage, nextId>>

\* Menu: the new-chat button.
NewChat ==
    /\ phase = "mounted"
    /\ nextId <= Len(Uuids)
    /\ nextId' = nextId + 1
    /\ Commit(handleNewChat(App, conversations), storage,
              Op("new", ""))

\* Menu: a click on the listed conversation id.
SwitchConversation(id) ==
    /\ phase = "mounted"
    /\ UNCHANGED nextId
    /\ Commit(handleSwitchConversation(App, id), storage,
              Op("switch", ""))

\* Menu: the delete button of the listed conversation id.
DeleteConversation(id) ==
    /\ phase = "mounted"
    /\ DeleteCreates(App, id) => nextId <= Len(Uuids)
    /\ nextId' = IF DeleteCreates(App, id) THEN nextId + 1 ELSE nextId
    /\ Commit(handleDeleteConversation(App, id), storage,
              Op("delete", IF DeleteCreates(App, id) THEN "last"
                 ELSE IF currentConversationId = id THEN "current" ELSE "other"))

\* Menu.handleRename: the rename box of conversation editingId is committed
\* with editingName in it.
RenameIn(editingId, editingName, max) ==
    /\ phase = "mounted"
    /\ Trim(editingName) # "" =>
          Size(handleRenameConversation(App, editingId, Trim(editingName))) <= max
    /\ UNCHANGED nextId
    /\ Commit(IF Trim(editingName) # ""
              THEN handleRenameConversation(App, editingId, Trim(editingName))
              ELSE App,
              storage,
              Op("rename", IF Trim(editingName) # "" THEN "named" ELSE "blank"))

RenameConversation(editingId, editingName) ==
    RenameIn(editingId, editingName, MaxContent)

\* Menu: the clear button.
ClearChat ==
    /\ phase = "mounted"
    /\ UNCHANGED nextId
    /\ Commit(handleClearChat(App), storage,
              Op("clear", ""))

\* The edit button of the message rendered at index i.
StartEdit(i) ==
    /\ phase = "mounted"
    /\ i >= 0 /\ i < Len(messages(App))
    /\ messages(App)[i + 1].role \in {"user", "model"}
    /\ UNCHANGED nextId
    /\ Commit([App EXCEPT !.editIndex = i, !.editRole = messages(App)[i + 1].role],
              storage,
              Op("startEdit", ""))

\* ChatInput: the cancel button, shown while editing.
CancelEdit ==
    /\ phase = "mounted"
    /\ editIndex # NoIndex
    /\ UNCHANGED nextId
    /\ Commit([App EXCEPT !.editIndex = NoIndex, !.editRole = "null"], storage,
              Op("cancelEdit", ""))

\* The kind of submit onSend makes of the edit state.
SubmitKind(s) ==
    IF s.editIndex # NoIndex /\ s.editRole = "user" THEN "editUser"
    ELSE IF s.editIndex # NoIndex /\ s.editRole = "model" THEN "editModel"
    ELSE "send"

\* ChatInput.handleSubmit with input in the box (typed, or filled in by an
\* edit button and changed or not); whitespace-only input is not submitted.
SubmitIn(input, max) ==
    /\ phase = "mounted"
    /\ Trim(input) # ""
    /\ Size(onSend(App, input)) <= max
    /\ UNCHANGED nextId
    /\ Commit(onSend(App, input), storage,
              Op(SubmitKind(App), ""))

Submit(input) == SubmitIn(input, MaxContent)

\* The resend button of the user message rendered at index i; the button is
\* disabled while isLoading.
ResendIn(i, max) ==
    /\ phase = "mounted"
    /\ ~isLoading
    /\ i >= 0 /\ i < Len(messages(App))
    /\ messages(App)[i + 1].role = "user"
    /\ Size(handleResend(App, i)) <= max
    /\ UNCHANGED nextId
    /\ Commit(handleResend(App, i), storage,
              Op("resend", ""))

Resend(i) == ResendIn(i, MaxContent)

\* handleResend(i) called with any index, whatever the buttons rendered allow.
ResendAt(i) ==
    /\ phase = "mounted"
    /\ Size(handleResend(App, i)) <= MaxThread
    /\ UNCHANGED nextId
    /\ Commit(handleResend(App, i), storage,
              Op("resendAt", IF CanResend(App, i) THEN "valid" ELSE "invalid"))

\* Menu: the instruction box is changed to text.
SystemInstructionChange(text) ==
    /\ phase = "mounted"
    /\ WithinBounds(handleSystemInstructionChange(App, text))
    /\ UNCHANGED nextId
    /\ Commit(handleSystemInstructionChange(App, text), storage,
              Op("instruction", ""))

\* Menu.handleSavePreset: the save button, with name given at the prompt; an
\* empty name or a blank instruction saves nothing.
AddSystemInstructionPreset(name) ==
    /\ phase = "mounted"
    /\ UNCHANGED nextId
    /\ Commit(IF name # "" /\ Trim(systemInstruction(App)) # ""
              THEN handleAddSystemInstructionPreset(App, name)
              ELSE App,
              storage,
              Op("savePreset",
                 IF name = "" \/ Trim(systemInstruction(App)) = "" THEN "none"
                 ELSE IF FindPreset(systemInstructionPresets, name) # 0
                 THEN "existing" ELSE "new"))

\* handleDeleteSystemInstructionPreset called with name.
DeleteSystemInstructionPreset(name) ==
    /\ phase = "mounted"
    /\ UNCHANGED nextId
    /\ Commit(handleDeleteSystemInstructionPreset(App, name), storage,
              Op("deletePreset",
                 IF FindPreset(systemInstructionPresets, name) = 0 THEN "none"
                 ELSE IF systemInstructionPresets[
                            FindPreset(systemInstructionPresets, name)].instruction
                         = systemInstruction(App)
                 THEN "matching" ELSE "other"))

\* ApiKeyInput: the model selector.
ModelChange(model) ==
    /\ phase = "mounted"
    /\ UNCHANGED nextId
    /\ Commit([App EXCEPT !.selectedModel = model], storage, Op("model", ""))

\* pending without its k-th element
RemoveAt(q, k) == SubSeq(q, 1, k - 1) \o SubSeq(q, k + 1, Len(q))

\* The external call of the k-th pending send resolves with reply and
\* handleSend runs from its await to its end.  after records whether this is
\* the send the previous event issued.
Reply(k, reply) ==
    /\ phase = "mounted"
    /\ k \in 1..Len(pending)
    /\ UNCHANGED nextId
    /\ Commit([handleSendResume(App, pending[k], reply) EXCEPT
                  !.pending = RemoveAt(@, k)],
              storage,
              Op("reply", IF k = Len(pending) /\ lastOp.op \in {"send", "editUser", "resend"}
                 THEN lastOp.op ELSE "later"))

\* The awaited call of the k-th pending send rejects.  sendToGeminiWithContext
\* catches what the remote call throws, so this happens only if something
\* outside its try block throws; handleSend's finally block provides for it.
Reject(k) ==
    /\ phase = "mounted"
    /\ k \in 1..Len(pending)
    /\ UNCHANGED nextId
    /\ Commit([handleSendRejected(App) EXCEPT !.pending = RemoveAt(@, k)],
              storage, Op("reject", ""))

\* The external call of the k-th pending send runs with apiKey stored and the
\* remote side behaving as remote, and handleSend runs from its await to its
\* end: past the await if the call returned, to the finally block if it
\* raised.  after records how the call ended.
Complete(k, apiKey, remote) ==
    /\ phase = "mounted"
    /\ k \in 1..Len(pending)
    /\ UNCHANGED nextId
    /\ LET call == sendToGeminiWithContext(pending[k].newMessages, apiKey, remote)
       IN  Commit([(IF call.kind = "return"
                    THEN handleSendResume(App, pending[k], call.text)
                    ELSE handleSendRejected(App))
                      EXCEPT !.pending = RemoveAt(@, k)],
                  storage,
                  Op("call", IF call.kind = "throw" THEN "raised"
                             ELSE IF call.invoked THEN "remote" ELSE "local"))

\* The calls the chat specification lets happen: one with a key that the
\* remote side answers, one with no key stored.
ChatCalls ==
    {<<"key", [kind |-> "text", text |-> "ok"]>>,
     <<"", [kind |-> "text", text |-> "ok"]>>}

\* The strings those calls resolve with.
Replies == {sendToGeminiWithContext(<<>>, c[1], c[2]).text : c \in ChatCalls}

\* Every event of the user interface and every reply.
Next ==
    \/ Mount
    \/ Reload
    \/ NewChat
    \/ \E id \in ListedIds(App) : SwitchConversation(id)
    \/ \E id \in ListedIds(App) : DeleteConversation(id)
    \/ \E id \in ListedIds(App), name \in RenameInputs : RenameConversation(id, name)
    \/ ClearChat
    \/ \E i \in 0..(MaxContent - 1) : StartEdit(i)
    \/ CancelEdit
    \/ \E input \in (IF editIndex = NoIndex THEN SendTexts ELSE EditTexts) :
          Submit(input)
    \/ \E i \in 0..(MaxContent - 1) : Resend(i)
    \/ \E reply \in Replies : \E k \in 1..Len(pending) : Reply(k, reply)

Spec == Init /\ [][Next]_vars

\* The chat: conversations are created, switched and deleted, messages are
\* sent, resent, edited and cleared, replies arrive.
NextChat ==
    \/ Mount
    \/ NewChat
    \/ \E id \in ListedIds(App) : SwitchConversation(id)
    \/ \E id \in ListedIds(App) : DeleteConversation(id)
    \/ ClearChat
    \/ \E i \in 0..(MaxContent - 1) : StartEdit(i)
    \/ CancelEdit
    \/ \E input \in (IF editIndex = NoIndex THEN SendTexts ELSE EditTexts) :
          Submit(input)
    \/ \E i \in 0..(MaxContent - 1) : Resend(i)
    \/ \E reply \in Replies : \E k \in 1..Len(pending) : Reply(k, reply)

SpecChat == Init /\ [][NextChat]_vars

\* The replies of the calls that may also raise: the text of a reply has no
\* part in the busy flag, so one reply stands for all.
CallReplies ==
    {sendToGeminiWithContext(<<>>, "key", [kind |-> "text", text |-> "ok"]).text}

\* The external call of some pending send finishes, by resolving or rejecting.
CallFinishes ==
    \/ \E reply \in CallReplies : \E k \in 1..Len(pending) : Reply(k, reply)
    \/ \E k \in 1..Len(pending) : Reject(k)

NextCalls ==
    \/ Mount
    \/ NewChat
    \/ \E id \in ListedIds(App) : SwitchConversation(id)
    \/ \E id \in ListedIds(App) : DeleteConversation(id)
    \/ ClearChat
    \/ \E i \in 0..(MaxContent - 1) : StartEdit(i)
    \/ CancelEdit
    \/ \E input \in (IF editIndex = NoIndex THEN SendTexts ELSE EditTexts) :
          Submit(input)
    \/ \E i \in 0..(MaxContent - 1) : Resend(i)
    \/ CallFinishes

\* The chat with calls that may also reject, where every call finishes.
SpecCalls == Init /\ [][NextCalls]_vars /\ WF_vars(CallFinishes)

\* The menu: conversations are created, switched, renamed and deleted,
\* instructions are typed, presets are saved and deleted, the model is
\* chosen, the page is reloaded.  The preset handlers are called with any
\* preset name (the Menu's delete button passes the selected one).
NextMenu ==
    \/ Mount
    \/ Reload
    \/ NewChat
    \/ \E id \in ListedIds(App) : SwitchConversation(id)
    \/ \E id \in ListedIds(App) : DeleteConversation(id)
    \/ \E id \in ListedIds(App), name \in RenameInputs : RenameConversation(id, name)
    \/ \E text \in InstructionTexts : SystemInstructionChange(text)
    \/ \E name \in PresetNames : AddSystemInstructionPreset(name)
    \/ \E name \in PresetNames : DeleteSystemInstructionPreset(name)
    \/ \E model \in Models : ModelChange(model)

SpecMenu == Init /\ [][NextMenu]_vars

-----------------------------------------------------------------------------
(* Properties *)

\* The ids of the conversations in the list, with repetitions counted.
Occurrences(id) == Cardinality({k \in 1..Len(conversations) : conversations[k].id = id})

\* C1: once loading has finished, the conversation list is non-empty and the
\* current conversation id is the id of exactly one conversation in the list,
\* whatever the user did and in whatever order the replies arrived.
C1_CurrentResolves ==
    phase = "mounted" =>
        /\ Len(conversations) > 0
        /\ Occurrences(currentConversationId) = 1

\* The last conversation was deleted while a reply was awaited, and the reply
\* has arrived since.
C1_Witness ==
    /\ phase = "mounted"
    /\ lastOp.op = "reply"
    /\ nextId > 2
    /\ Len(conversations) = 1

\* conversations' holds the conversations prior, unchanged and in order, and
\* after them one new conversation: its id is not the id of a conversation of
\* the list before the step, it has no messages and no instruction, and it is
\* the current conversation.
Created(prior) ==
    /\ Len(conversations') = Len(prior) + 1
    /\ SubSeq(conversations', 1, Len(prior)) = prior
    /\ LET new == conversations'[Len(prior) + 1]
       IN  /\ \A k \in 1..Len(conversations) : conversations[k].id # new.id
           /\ new.messages = <<>>
           /\ new.systemInstruction = ""
           /\ currentConversationId' = new.id

DistinctIds ==
    \A j, k \in 1..Len(conversations) :
        conversations[j].id = conversations[k].id => j = k

\* C2: every create (the new-chat button, the creation at load, the creation
\* after the last conversation is deleted) adds exactly one conversation with
\* an id no listed conversation has, no messages and no instruction, leaves
\* the conversations that stay unchanged and makes the new one current; and
\* in every reachable state the ids are pairwise distinct.
C2_CreateAddsFresh ==
    /\ []DistinctIds
    /\ [][/\ NewChat => Created(conversations)
          /\ (Mount /\ LoadCreates(storage)) => Created(<<>>)
          /\ \A id \in ListedIds(App) :
                (DeleteConversation(id) /\ DeleteCreates(App, id)) => Created(<<>>)
         ]_vars

\* A third conversation was created while two were listed.
C2_Witness ==
    /\ lastOp.op = "new"
    /\ Len(conversations) = 3
    /\ currentConversationId = conversations[3].id

\* conversations without the one whose id is id
Without(convs, id) == SelectSeq(convs, LAMBDA c : c.id # id)

\* C3: deleting the current conversation makes the first remaining
\* conversation, in list order, current; if none remains, exactly one new
\* empty conversation is created and is current, and the list has one
\* element.  Deleting another conversation leaves the current id unchanged.
C3_DeleteCurrent ==
    [][\A id \in ListedIds(App) :
          DeleteConversation(id) =>
            IF currentConversationId # id
            THEN /\ currentConversationId' = currentConversationId
                 /\ conversations' = Without(conversations, id)
            ELSE IF Without(conversations, id) # <<>>
            THEN /\ conversations' = Without(conversations, id)
                 /\ currentConversationId' = Head(Without(conversations, id)).id
            ELSE /\ Len(conversations') = 1
                 /\ conversations'[1].id # id
                 /\ conversations'[1].messages = <<>>
                 /\ conversations'[1].systemInstruction = ""
                 /\ currentConversationId' = conversations'[1].id
      ]_vars

\* The current conversation was deleted while two others were listed, and the
\* first of them is current.
C3_Witness ==
    /\ lastOp = Op("delete", "current")
    /\ Len(conversations) = 2
    /\ currentConversationId = conversations[1].id

\* One conversation and nothing but its messages: sends, resends, edits of
\* user messages and replies of the remote model, on a thread of up to
\* MaxThread messages and pending calls.
NextThread ==
    \/ Mount
    \/ \E i \in 0..(MaxThread - 1) :
          ArrayGet(messages(App), i).role = "user" /\ StartEdit(i)
    \/ CancelEdit
    \/ \E input \in (IF editIndex = NoIndex THEN SendTexts ELSE EditTexts) :
          SubmitIn(input, MaxThread)
    \/ \E i \in 0..(MaxThread - 1) : ResendIn(i, MaxThread)
    \/ \E k \in 1..Len(pending) :
          Reply(k, sendToGeminiWithContext(pending[k].newMessages, "key",
                                           [kind |-> "text", text |-> "ok"]).text)

SpecThread == Init /\ [][NextThread]_vars

\* Every element of ms is a message of the data model.
WellFormed(ms) == \A k \in 1..Len(ms) : ms[k].role \in {"user", "model"}

\* C4: a resend of the user message at index i, or the submit of an edit of
\* the user message at index i, on messages M leaves M[0..i) followed by one
\* user message (the original text, or the new one); if the reply arrives
\* with nothing in between, it adds one model message to that, so that the
\* messages from index i on are gone and i + 2 messages are left.
C4_ResendTruncates ==
    [][/\ \A i \in 0..MaxThread :
            ResendIn(i, MaxThread) =>
              /\ messages(App)' =
                    ArraySlice(messages(App), i)
                        \o <<Msg("user", messages(App)[i + 1].text)>>
              /\ Len(messages(App)') = i + 1
       /\ \A text \in EditTexts :
            (/\ SubmitIn(text, MaxThread)
             /\ SubmitKind(App) = "editUser"
             /\ WellFormed(messages(App))
             /\ ArrayGet(messages(App), editIndex).role = "user") =>
              /\ messages(App)' =
                    ArraySlice(messages(App), editIndex) \o <<Msg("user", text)>>
              /\ Len(messages(App)') = editIndex + 1
       /\ (/\ lastOp.op \in {"resend", "editUser"}
           /\ lastOp'.op = "reply"
           /\ lastOp'.after = lastOp.op) =>
              /\ Len(messages(App)') = Len(messages(App)) + 1
              /\ SubSeq(messages(App)', 1, Len(messages(App))) = messages(App)
              /\ messages(App)'[Len(messages(App)')].role = "model"
      ]_vars

\* The third message of four was resent and the reply has arrived: the
\* conversation holds the first three messages and the new reply.
C4_Witness ==
    /\ lastOp = Op("reply", "resend")
    /\ Len(messages(App)) = 4
    /\ messages(App)[3].role = "user"
    /\ messages(App)[4].role = "model"
    /\ storage.conversations.json[1].messages = messages(App)

\* C5: the submit of an edit of the model message at index i leaves the
\* number of messages unchanged, gives the message at i the new text and
\* keeps its role, and changes no other message of any conversation; no call
\* is started and the busy flag is unchanged.
C5_ModelEditInPlace ==
    [][\A text \in EditTexts :
          (/\ Submit(text)
           /\ SubmitKind(App) = "editModel"
           /\ WellFormed(messages(App))
           /\ ArrayGet(messages(App), editIndex).role = "model") =>
            /\ Len(messages(App)') = Len(messages(App))
            /\ messages(App)'[editIndex + 1] = Msg("model", text)
            /\ \A k \in 1..Len(messages(App)) :
                  k # editIndex + 1 => messages(App)'[k] = messages(App)[k]
            /\ \A k \in 1..Len(conversations) :
                  conversations[k].id # currentConversationId =>
                      conversations'[k] = conversations[k]
            /\ Len(conversations') = Len(conversations)
            /\ pending' = pending
            /\ isLoading' = isLoading
      ]_vars

\* An edit of a model message was submitted and the message holds the text
\* submitted.
C5_Witness ==
    /\ lastOp.op = "editModel"
    /\ \E k \in 1..Len(messages(App)) :
          messages(App)[k].role = "model" /\ messages(App)[k].text \in EditTexts

\* A step that starts a send of text on history: the current conversation
\* holds history and the user message, the flag is set, and the call is
\* pending with that list.
SendStarted(history, text) ==
    /\ messages(App)' = history \o <<Msg("user", text)>>
    /\ isLoading'
    /\ Len(pending') = Len(pending) + 1
    /\ pending'[Len(pending')] =
          [cid |-> currentConversationId,
           newMessages |-> history \o <<Msg("user", text)>>]
    /\ \A k \in 1..Len(conversations) :
          conversations[k].id # currentConversationId =>
              conversations'[k] = conversations[k]

\* C6: a send of text t on history H commits H followed by the user message
\* t and sets the busy flag while the call is still pending; when the call
\* returns, the messages of the conversation become that list followed by
\* exactly one model message holding the string returned, whichever it is.
C6_SendCommits ==
    [][/\ \A text \in SendTexts :
            (/\ Submit(text)
             /\ SubmitKind(App) = "send"
             /\ WellFormed(messages(App))) =>
                SendStarted(messages(App), text)
       /\ \A reply \in Replies : \A k \in 1..Len(pending) :
            Reply(k, reply) =>
              \A j \in 1..Len(conversations) :
                conversations[j].id = pending[k].cid =>
                  conversations'[j].messages =
                      pending[k].newMessages \o <<Msg("model", reply)>>
      ]_vars

\* A reply arrived that is the placeholder for the missing key, and the
\* conversation ends with the user message sent and that placeholder.
C6_Witness ==
    /\ lastOp = Op("reply", "send")
    /\ Len(messages(App)) = 2
    /\ messages(App)[1] = Msg("user", "hi")
    /\ messages(App)[2] = Msg("model", MissingKeyText)

\* C7: when the external call of a send finishes, by returning or by raising,
\* the busy flag is false; and, every call finishing, a state with the busy
\* flag set is always followed by a state with the flag cleared.
C7_BusyCleared ==
    /\ [][CallFinishes => ~isLoading']_vars
    /\ (isLoading ~> ~isLoading)

\* A call raised and the busy flag is cleared.
C7_Witness == lastOp.op = "reject" /\ ~isLoading /\ phase = "mounted"

\* C8: started with no stored conversations, the load leaves exactly one
\* conversation, named "Conversation 1", with no messages and no
\* instruction, and it is the current conversation.
C8_StartUp ==
    lastOp = Op("load", "empty") =>
        /\ Len(conversations) = 1
        /\ conversations[1].name = "Conversation 1"
        /\ conversations[1].messages = <<>>
        /\ conversations[1].systemInstruction = ""
        /\ currentConversationId = conversations[1].id

\* The load from empty storage has run.
C8_Witness == lastOp = Op("load", "empty") /\ phase = "mounted"

\* The names of the presets are pairwise distinct.
DistinctPresetNames ==
    \A j, k \in 1..Len(systemInstructionPresets) :
        systemInstructionPresets[j].name = systemInstructionPresets[k].name
            => j = k

\* C9: a save of a preset under a name that exists leaves the number of
\* presets unchanged and every other entry as it was, and the entry of that
\* name, at its position, holds the instruction of the current conversation;
\* a save under a new name appends one entry holding that instruction; and
\* the preset names are pairwise distinct in every state.
C9_PresetUpsert ==
    /\ []DistinctPresetNames
    /\ [][\A name \in PresetNames :
            (/\ AddSystemInstructionPreset(name)
             /\ Trim(systemInstruction(App)) # "") =>
              LET k == FindPreset(systemInstructionPresets, name)
                  saved == [name |-> name,
                            instruction |-> systemInstruction(App)]
              IN  IF k # 0
                  THEN /\ Len(systemInstructionPresets') =
                            Len(systemInstructionPresets)
                       /\ systemInstructionPresets'[k] = saved
                       /\ \A j \in 1..Len(systemInstructionPresets) :
                            j # k => systemInstructionPresets'[j] =
                                        systemInstructionPresets[j]
                  ELSE systemInstructionPresets' =
                            systemInstructionPresets \o <<saved>>
         ]_vars

\* The first of two presets was saved again with another instruction and
\* is still the first of two.
C9_Witness ==
    /\ lastOp = Op("savePreset", "existing")
    /\ Len(systemInstructionPresets) = 2
    /\ systemInstructionPresets[1].instruction = systemInstruction(App)
    /\ systemInstructionPresets[2].instruction # systemInstruction(App)

\* The instructions of the conversations other than the current one, and
\* the messages of all of them, are the same after the step.
OthersAndMessagesUnchanged ==
    /\ Len(conversations') = Len(conversations)
    /\ \A k \in 1..Len(conversations) :
          /\ conversations'[k].id = conversations[k].id
          /\ conversations'[k].messages = conversations[k].messages
          /\ conversations[k].id # currentConversationId =>
                conversations'[k].systemInstruction =
                    conversations[k].systemInstruction

\* C10: a delete of a preset leaves the presets of other names, in order; the
\* instruction of the current conversation becomes empty if it equals the
\* instruction of the preset deleted and is unchanged otherwise; the
\* instructions of the other conversations and all messages are unchanged.
C10_PresetDelete ==
    [][\A name \in PresetNames :
          DeleteSystemInstructionPreset(name) =>
            LET k == FindPreset(systemInstructionPresets, name)
            IN  /\ systemInstructionPresets' =
                      SelectSeq(systemInstructionPresets,
                                LAMBDA p : p.name # name)
                /\ currentConversationId' = currentConversationId
                /\ systemInstruction(App)' =
                      IF /\ k # 0
                         /\ systemInstructionPresets[k].instruction =
                                systemInstruction(App)
                      THEN ""
                      ELSE systemInstruction(App)
                /\ OthersAndMessagesUnchanged
      ]_vars

\* A preset was deleted whose instruction is not the one of the current
\* conversation, which still has its instruction, while another conversation
\* exists.
C10_Witness ==
    /\ lastOp = Op("deletePreset", "other")
    /\ systemInstruction(App) # ""
    /\ Len(conversations) > 1

-----------------------------------------------------------------------------
(* The handlers called with any argument *)

\* The ids a caller may pass: those uuidv4 hands out, listed or not.
AnyIds == {Uuids[k] : k \in 1..Len(Uuids)}

\* The handlers of App called directly: handleSwitchConversation with any id
\* and handleResend with any index, besides creating, deleting, sending and
\* the replies.
NextHandlers ==
    \/ Mount
    \/ NewChat
    \/ \E id \in AnyIds : SwitchConversation(id)
    \/ \E id \in ListedIds(App) : DeleteConversation(id)
    \/ \E input \in SendTexts : Submit(input)
    \/ \E i \in 0..MaxContent : ResendAt(i)
    \/ \E reply \in Replies : \E k \in 1..Len(pending) : Reply(k, reply)

SpecHandlers == Init /\ [][NextHandlers]_vars

\* C11: a switch to an id that no conversation of the list has leaves the
\* current id and the list of conversations unchanged.
C11_SwitchUnknownNoOp ==
    [][\A id \in AnyIds :
          (SwitchConversation(id) /\ id \notin ListedIds(App)) =>
              /\ currentConversationId' = currentConversationId
              /\ conversations' = conversations
      ]_vars

\* A step that creates a conversation: uuidv4 hands out one more id.
Creates == nextId' = nextId + 1

\* C12: on every path that creates a conversation, its name is
\* "Conversation N" with N one more than the number of conversations the
\* list holds when the new one is appended, which is the number the list
\* holds afterwards.
C12_NamedByCount ==
    [][Creates =>
          /\ Len(conversations') > 0
          /\ conversations'[Len(conversations')].name =
                "Conversation " \o ToString(Len(conversations'))
      ]_vars

\* The same for the new-chat button and the creation at load alone.
NamedByCountUnlessDeleting ==
    [][(Creates /\ lastOp'.op # "delete") =>
          /\ Len(conversations') > 0
          /\ conversations'[Len(conversations')].name =
                "Conversation " \o ToString(Len(conversations'))
      ]_vars

\* The message list ms holds a user message at index i.
UserAuthored(ms, i) == i >= 0 /\ i < Len(ms) /\ ms[i + 1].role = "user"

\* C13: handleResend at an index that holds a model message, or no message,
\* changes no message list, starts no call and leaves the busy flag as it
\* was.
C13_InvalidResendNoOp ==
    [][\A i \in 0..MaxContent :
          (ResendAt(i) /\ ~UserAuthored(messages(App), i)) =>
              /\ conversations' = conversations
              /\ pending' = pending
              /\ isLoading' = isLoading
      ]_vars

\* handleResend was called at an index without a user message on a
\* conversation that holds a user message and a reply, and both are there.
C13_Witness ==
    /\ lastOp = Op("resendAt", "invalid")
    /\ Len(messages(App)) = 2
    /\ messages(App)[1].role = "user"
    /\ messages(App)[2].role = "model"
    /\ pending = <<>>

\* The ids of the conversations a stored list holds.
StoredIds(st) ==
    {st.conversations.json[k].id : k \in 1..Len(st.conversations.json)}

\* What a load of the conversations slot gives is the list in memory, and
\* likewise for the current id, the presets and the model.
StoredIsMemory ==
    /\ storage.conversations.present /\ storage.conversations.json = conversations
    /\ storage.currentId.present /\ storage.currentId.json = currentConversationId
    /\ storage.presets.present /\ storage.presets.json = systemInstructionPresets
    /\ storage.model.present /\ storage.model.json = selectedModel

\* C14: once a state change has been rendered and its effects have run, each
\* of the four stored values is the value in memory, and the stored current
\* id is the id of a conversation of the stored list.
C14_StoredIsMemory ==
    phase = "mounted" =>
        /\ StoredIsMemory
        /\ storage.currentId.json \in StoredIds(storage)

\* The same while every message in memory is a message of the data model.
StoredIsMemoryIfWellFormed ==
    (/\ phase = "mounted"
     /\ \A k \in 1..Len(conversations) : WellFormed(conversations[k].messages))
        => /\ StoredIsMemory
           /\ storage.currentId.json \in StoredIds(storage)

-----------------------------------------------------------------------------
(* The external call *)

\* The chat with every outcome of the external call: with and without a
\* stored key, the remote side answering with a text or with none, throwing
\* an Error or something else.
NextGemini ==
    \/ Mount
    \/ NewChat
    \/ \E id \in ListedIds(App) : SwitchConversation(id)
    \/ \E id \in ListedIds(App) : DeleteConversation(id)
    \/ ClearChat
    \/ \E input \in SendTexts : Submit(input)
    \/ \E k \in 1..Len(pending) : \E apiKey \in ApiKeys :
          \E remote \in RemoteOutcomes : Complete(k, apiKey, remote)

SpecGemini == Init /\ [][NextGemini]_vars

\* The strings the external call can return for these outcomes.
CallStrings ==
    {MissingKeyText, EmptyResponseText, UnknownErrorText}
        \cup {r.text : r \in RemoteOutcomes}
        \cup {ErrorText(r.text) : r \in RemoteOutcomes}

\* C15: whatever the stored key and the outcome of the remote call, the
\* external call returns and does not raise, and what it returns is a string,
\* which the send commits as the model message; with no key stored it returns
\* the missing-key placeholder and the remote API has not been invoked.
C15_CallTotal ==
    [][\A k \in 1..Len(pending) : \A apiKey \in ApiKeys :
         \A remote \in RemoteOutcomes :
            Complete(k, apiKey, remote) =>
              /\ lastOp'.after \in {"remote", "local"}
              /\ apiKey = "" => lastOp'.after = "local"
              /\ \A j \in 1..Len(conversations) :
                    conversations[j].id = pending[k].cid =>
                      LET ms == conversations'[j].messages
                      IN  /\ Len(ms) = Len(pending[k].newMessages) + 1
                          /\ ms[Len(ms)].role = "model"
                          /\ ms[Len(ms)].text \in CallStrings
                          /\ apiKey = "" => ms[Len(ms)].text = MissingKeyText
      ]_vars

\* The remote call threw something that is no Error, and the call returned
\* the placeholder for that, which is the reply in the conversation.
C15_Witness ==
    /\ lastOp = Op("call", "remote")
    /\ Len(messages(App)) = 2
    /\ messages(App)[2] = Msg("model", UnknownErrorText)

-----------------------------------------------------------------------------
(* Start-up over storage that may not parse *)

\* A slot whose stored text JSON.parse rejects; v is never read.
CorruptItem(v) == [present |-> TRUE, corrupt |-> TRUE, json |-> v]

\* A conversation as the program stores it.
StoredConversation(id, name) ==
    [id |-> id, name |-> name, messages |-> <<>>, systemInstruction |-> ""]

\* What each slot may hold when the page opens: nothing, text that does not
\* parse, or a value the program wrote earlier.
StartStorages ==
    [conversations :
        {NoConversations, CorruptItem(<<>>),
         Item(<<StoredConversation(Uuids[1], "Conversation 1")>>),
         Item(<<StoredConversation(Uuids[1], "Conversation 1"),
                StoredConversation(Uuids[2], "Conversation 2")>>)},
     currentId : {NoCurrentId, CorruptItem(NoId), Item(Uuids[1])},
     presets : {NoPresets, CorruptItem(<<>>),
                Item(<<[name |-> "p", instruction |-> "be brief"]>>)},
     model : {NoModel, CorruptItem(""), Item("gemini-2.5-pro")}]

\* The page opens over one of these storages; the ids of the stored
\* conversations are ids uuidv4 has handed out.
InitLoad ==
    /\ storage \in StartStorages
    /\ conversations = InitialApp(storage).conversations
    /\ currentConversationId = InitialApp(storage).currentConversationId
    /\ isLoading = InitialApp(storage).isLoading
    /\ editIndex = InitialApp(storage).editIndex
    /\ editRole = InitialApp(storage).editRole
    /\ systemInstructionPresets = InitialApp(storage).systemInstructionPresets
    /\ selectedModel = InitialApp(storage).selectedModel
    /\ pending = InitialApp(storage).pending
    /\ nextId = 3
    /\ phase = "initial"
    /\ lastOp = Op("init", "")

NextLoad ==
    \/ Mount
    \/ Reload
    \/ NewChat
    \/ \E id \in ListedIds(App) : SwitchConversation(id)
    \/ \E id \in ListedIds(App) : DeleteConversation(id)
    \/ \E model \in Models : ModelChange(model)

SpecLoad == InitLoad /\ [][NextLoad]_vars

\* The step leaves exactly one conversation, new and empty, and it is current.
StartsFresh ==
    /\ Len(conversations') = 1
    /\ conversations'[1].id = uuidv4
    /\ conversations'[1].messages = <<>>
    /\ conversations'[1].systemInstruction = ""
    /\ currentConversationId' = uuidv4

\* The load effect fails on storage st: JSON.parse throws on the
\* conversations, or on the current id that is read after them.
LoadFails(st) ==
    /\ st.conversations.present
    /\ \/ st.conversations.corrupt
       \/ st.currentId.present /\ st.currentId.corrupt

\* C16: a start-up over a slot that does not parse raises no error; if the
\* load of the conversations fails the program starts with exactly one new
\* empty conversation, which is current; if the presets do not parse it
\* starts with no presets; if the model does not parse it starts with the
\* default model.
C16_LoadFallsBack ==
    [][Mount =>
          /\ phase' = "mounted"
          /\ LoadFails(storage) => StartsFresh
          /\ (storage.presets.present /\ storage.presets.corrupt) =>
                systemInstructionPresets' = <<>>
          /\ (storage.model.present /\ storage.model.corrupt) =>
                selectedModel' = DefaultModel
      ]_vars

\* The same where the load effect fails on the conversations slot itself.
LoadFallsBackOnConversations ==
    [][Mount =>
          /\ phase' = "mounted"
          /\ (storage.conversations.present /\ storage.conversations.corrupt)
                => StartsFresh
          /\ (storage.presets.present /\ storage.presets.corrupt) =>
                systemInstructionPresets' = <<>>
          /\ (storage.model.present /\ storage.model.corrupt) =>
                selectedModel' = DefaultModel
      ]_vars

\* The sends on conversation id whose calls are pending.
InFlight(id) == {k \in 1..Len(pending) : pending[k].cid = id}

\* C17: with the events of the user interface, no conversation has two sends
\* in flight, and while the busy flag is set neither a submit of the input
\* that sends nor the resend button starts a send.
C17_OneSendAtATime ==
    /\ [](\A id \in AnyIds : Cardinality(InFlight(id)) <= 1)
    /\ [][/\ \A input \in SendTexts \cup EditTexts :
              (/\ SubmitIn(input, MaxThread)
               /\ SubmitKind(App) \in {"send", "editUser"}) => ~isLoading
           /\ \A i \in 0..MaxThread : ResendIn(i, MaxThread) => ~isLoading
        ]_vars

\* The resend button alone: it starts no send while the busy flag is set.
ResendOnlyWhenIdle ==
    [][\A i \in 0..MaxThread : ResendIn(i, MaxThread) => ~isLoading]_vars

\* The step changes nothing of the conversations but the messages of the
\* conversation id: the same conversations in the same order, every other
\* one as it was, and the name and the instruction of id as they were.
ChangesOnlyMessagesOf(id) ==
    /\ Len(conversations') = Len(conversations)
    /\ \A j \in 1..Len(conversations) :
          /\ conversations'[j].id = conversations[j].id
          /\ conversations'[j].name = conversations[j].name
          /\ conversations'[j].systemInstruction = conversations[j].systemInstruction
          /\ conversations[j].id # id => conversations'[j] = conversations[j]

\* C18: the commit of the user message changes only the messages of the
\* conversation that is current when the send is issued, and the commit of
\* the reply changes only the messages of that same conversation, whichever
\* conversation is current when the reply arrives and whatever was created,
\* switched to or deleted in between; all other conversations, and the current
\* id, are as they were.
C18_SendIsolated ==
    [][/\ \A input \in SendTexts \cup EditTexts :
            (/\ Submit(input)
             /\ SubmitKind(App) \in {"send", "editUser"}
             /\ WellFormed(messages(App))) =>
                /\ ChangesOnlyMessagesOf(currentConversationId)
                /\ pending'[Len(pending')].cid = currentConversationId
                /\ currentConversationId' = currentConversationId
       /\ \A i \in 0..MaxContent :
            Resend(i) =>
                /\ ChangesOnlyMessagesOf(currentConversationId)
                /\ pending'[Len(pending')].cid = currentConversationId
                /\ currentConversationId' = currentConversationId
       /\ \A reply \in Replies : \A k \in 1..Len(pending) :
            Reply(k, reply) =>
                /\ ChangesOnlyMessagesOf(pending[k].cid)
                /\ currentConversationId' = currentConversationId
      ]_vars

\* A send was issued in the first conversation, a second conversation was
\* created and is current, and the reply has arrived: it is in the first
\* conversation and the second is empty.
C18_Witness ==
    /\ lastOp = Op("reply", "later")
    /\ Len(conversations) = 2
    /\ currentConversationId = conversations[2].id
    /\ conversations[2].messages = <<>>
    /\ Len(conversations[1].messages) = 2
    /\ conversations[1].messages[2].role = "model"

\* C19: when sends on one conversation are in flight together and their
\* replies arrive one after the other, then after the last reply the
\* conversation holds the message list that send was issued with, followed
\* by its reply, and nothing else: what the reply before it committed is
\* there only as far as it is part of that list.
C19_LastReplyWins ==
    [][\A reply \in Replies : \A k \in 1..Len(pending) :
          (/\ lastOp.op = "reply"
           /\ Reply(k, reply)
           /\ InFlight(pending[k].cid) = {k}
           /\ pending[k].cid = currentConversationId) =>
              /\ messages(App)' =
                    pending[k].newMessages \o <<Msg("model", reply)>>
              /\ Len(messages(App)') = Len(pending[k].newMessages) + 1
      ]_vars

\* Two sends were in flight together; the reply of the first arrived, then
\* the reply of the second: the conversation holds both user messages and
\* the second reply, and the first reply is gone.
C19_Witness ==
    /\ lastOp.op = "reply"
    /\ pending = <<>>
    /\ Len(messages(App)) = 3
    /\ messages(App)[1].role = "user"
    /\ messages(App)[2].role = "user"
    /\ messages(App)[3].role = "model"

\* C20: a clear leaves the current conversation with no messages and with
\* its id, name and instruction; the current id, every other conversation,
\* the presets, the busy flag and the calls in flight are as they were.
C20_ClearFrame ==
    [][ClearChat =>
          /\ messages(App)' = <<>>
          /\ ChangesOnlyMessagesOf(currentConversationId)
          /\ currentConversationId' = currentConversationId
          /\ systemInstructionPresets' = systemInstructionPresets
          /\ selectedModel' = selectedModel
          /\ isLoading' = isLoading
          /\ pending' = pending
      ]_vars

\* The conversation was cleared while its send is in flight and the busy
\* flag is set, with another conversation in the list.
C20_Witness ==
    /\ lastOp.op = "clear"
    /\ messages(App) = <<>>
    /\ isLoading
    /\ Len(pending) = 1
    /\ pending[1].cid = currentConversationId
    /\ Len(conversations) = 2

-----------------------------------------------------------------------------
(* Renaming *)

\* The menu over conversations that hold messages and instructions:
\* conversations are created, switched, deleted and renamed, an instruction
\* is typed, a message is sent and answered.
NextRename ==
    \/ Mount
    \/ NewChat
    \/ \E id \in ListedIds(App) : SwitchConversation(id)
    \/ \E id \in ListedIds(App) : DeleteConversation(id)
    \/ \E id \in ListedIds(App), name \in RenameInputs :
          RenameIn(id, name, MaxThread)
    \/ \E text \in InstructionTexts : SystemInstructionChange(text)
    \/ \E input \in SendTexts : SubmitIn(input, MaxThread)
    \/ \E reply \in CallReplies : \E k \in 1..Len(pending) : Reply(k, reply)

SpecRename == Init /\ [][NextRename]_vars

\* C21: a rename committed with a name that trims to a non-empty string
\* replaces the name of the conversation with the given id by the trimmed
\* name and nothing else; a rename committed with an empty or whitespace-only
\* name changes no conversation; in both cases the messages, the
\* instructions, the current id and every other conversation are unchanged.
C21_RenameFrame ==
    [][\A id \in AnyIds, name \in RenameInputs :
          RenameIn(id, name, MaxThread) =>
              /\ currentConversationId' = currentConversationId
              /\ Len(conversations') = Len(conversations)
              /\ \A k \in 1..Len(conversations) :
                    conversations'[k] =
                        IF conversations[k].id = id /\ Trim(name) # ""
                        THEN [conversations[k] EXCEPT !.name = Trim(name)]
                        ELSE conversations[k]]_vars

\* A conversation that holds a message was renamed, with surrounding blanks
\* trimmed, next to another conversation that keeps its name.
C21_Witness ==
    /\ lastOp = Op("rename", "named")
    /\ Len(conversations) = 2
    /\ \E k \in 1..2 :
          /\ conversations[k].name = "Work"
          /\ conversations[k].messages # <<>>
          /\ conversations[3 - k].name # "Work"

-----------------------------------------------------------------------------
(* Edits that outlive the messages they were started on *)

\* C22: in every state every message of every conversation has the role user
\* or model and a text, whatever happens between the start of an edit and its
\* submit; and the submit of an edit of a model message writes at an index
\* that holds a message, and that message is a model message.
C22_MessagesWellFormed ==
    /\ [](\A k \in 1..Len(conversations) : WellFormed(conversations[k].messages))
    /\ [][\A input \in EditTexts :
              (SubmitIn(input, MaxContent) /\ SubmitKind(App) = "editModel") =>
                  /\ editIndex < Len(messages(App))
                  /\ messages(App)[editIndex + 1].role = "model"]_vars

-----------------------------------------------------------------------------
(* The busy flag and the sends in flight *)

\* C23: the busy flag is set in exactly the states where the external call
\* of at least one send is still in flight.
C23_BusyIffInFlight == isLoading <=> pending # <<>>

\* One direction alone: the busy flag is set only while a send is in flight.
BusyOnlyWhileInFlight == isLoading => pending # <<>>

-----------------------------------------------------------------------------
(* Replies that arrive after a clear or a delete *)

\* The messages of the listed conversation id in the conversations convs.
MessagesIn(convs, id) == convs[FindConversation(convs, id)].messages

\* C24: once a conversation has been cleared, no message it held before the
\* clear reappears in it.  A send puts its messages into its conversation
\* when it is issued, so a conversation that is empty while a send on it is
\* in flight has been cleared since: the reply of that send brings back none
\* of the messages the send had put there.
C24_ClearedStaysCleared ==
    [][\A reply \in Replies : \A k \in 1..Len(pending) :
          (/\ Reply(k, reply)
           /\ pending[k].cid \in ListedIds(App)
           /\ MessagesIn(conversations, pending[k].cid) = <<>>) =>
              \A j \in 1..Len(MessagesIn(conversations', pending[k].cid)) :
                  \A i \in 1..Len(pending[k].newMessages) :
                      MessagesIn(conversations', pending[k].cid)[j]
                          # pending[k].newMessages[i]]_vars

\* C25: a deleted conversation does not reappear.  No step lists an id that
\* uuidv4 handed out earlier and that is no longer listed; and the reply of a
\* send whose conversation has been deleted meanwhile adds no conversation,
\* leaves every remaining conversation as it is and clears the busy flag.
C25_DeletedStaysDeleted ==
    [][/\ \A id \in AnyIds :
              (id \in ListedIds(App)' /\ id \notin ListedIds(App)) =>
                  (nextId <= Len(Uuids) /\ id = Uuids[nextId])
       /\ \A reply \in Replies : \A k \in 1..Len(pending) :
              (Reply(k, reply) /\ pending[k].cid \notin ListedIds(App)) =>
                  /\ conversations' = conversations
                  /\ currentConversationId' = currentConversationId
                  /\ ~isLoading']_vars

\* The reply of a send arrived after the conversation of the send, the first
\* one created, had been deleted: no conversation holds a message, and the
\* busy flag is cleared.
C25_Witness ==
    /\ lastOp.op = "reply"
    /\ phase = "mounted"
    /\ pending = <<>>
    /\ ~isLoading
    /\ Uuids[1] \notin ListedIds(App)
    /\ conversations # <<>>
    /\ \A k \in 1..Len(conversations) : conversations[k].messages = <<>>

====
